---- MODULE Spec2Model ----
(***************************************************************************)
(* docker-connector (src/main.go): resolve a running ECS task of a service *)
(* to its EC2 host and to the runtime id of a named container, then start  *)
(* an SSM session into it, inside a bounded retry loop with fixed backoff. *)
(*                                                                         *)
(* The control plane (ECS, STS) and the aws CLI are the environment: every *)
(* remote call answers nondeterministically (an error, an empty result or  *)
(* the data of the cluster), the cluster itself is drawn in Init.          *)
(***************************************************************************)
EXTENDS Integers, Sequences, FiniteSets, TLC

VARIABLES
    flags,                  \* the parsed command line (main.go:122-127)
    cp,                     \* the cluster as the control plane knows it
    pc,                     \* position of main
    cfg,                    \* aws.Config loaded by LoadDefaultConfig
    i,                      \* loop counter of the retry loop
    retrySuccess,           \* main.go:152
    taskArn,                \* locals of one loop iteration
    containerInstanceArn,
    instanceID,
    containerID,
    err,                    \* last error value ("" is nil)
    exitCode,               \* -1 while running
    fatal,                  \* which log.Fatal ended the process ("" is none)
    sts,                    \* history: the answer of GetCallerIdentity
    taskArns,               \* history: TaskArns of this attempt's ListTasks
    calls,                  \* history: remote calls issued, per operation
    att,                    \* history: remote calls issued in this attempt
    sleeps,                 \* history: time.Sleep calls
    outcomes,               \* history: how each finished attempt ended
    launches,               \* history: every startSSMSession call
    resolvedIn              \* history: attempt that assigned each local

vars == <<flags, cp, pc, cfg, i, retrySuccess, taskArn, containerInstanceArn,
          instanceID, containerID, err, exitCode, fatal, sts, taskArns, calls, att,
          sleeps, outcomes, launches, resolvedIn>>

locals == <<taskArn, containerInstanceArn, instanceID, containerID>>

----------------------------------------------------------------------------
(* Bounds of the model and constants of the program *)

maxRetries == 3

MaxContainers == 2

Nil == "<nil>"                             \* a nil *string

region == "eu-west-2"

TaskArns == {"T1", "T2"}

ContainerInstanceArns == {"H1", "H2"}

Names == {"app", "sidecar"}

SeqsUpTo(S, n) == UNION {[1..k -> S] : k \in 0..n}

\* a slice of distinct task ARNs, in any order
TaskArnLists == {s \in SeqsUpTo(TaskArns, Cardinality(TaskArns)) :
                    \A a, b \in 1..Len(s) : a # b => s[a] # s[b]}

RuntimeIdOf(t, k) == "rt-" \o t \o "-" \o ToString(k)

Ec2InstanceIdOf(h) == "i-" \o h

\* The clusters the run may face.  Task T1 is placed on instance H1 and is
\* running; T2 may be placed on either instance or on none (no container
\* instance reference at all), and may still be pending, in which case none
\* of its containers has a runtime id yet.  H2 may lack an EC2 instance id
\* (a case kept only when a task is placed on H2).
\* Every task of the service runs the same container definitions.
Clusters ==
    { c \in [ taskDef  : SeqsUpTo(Names, MaxContainers),
              pending  : {{}, {"T2"}},
              hostRef  : {[t \in TaskArns |-> IF t = "T1" THEN "H1" ELSE h] :
                             h \in ContainerInstanceArns \cup {Nil}},
              noEc2Id  : {{}, {"H2"}} ] :
        c.noEc2Id # {} => c.hostRef["T2"] = "H2" }

\* types.Task as DescribeTasks returns it
TaskRecord(t) ==
    [ TaskArn              |-> t,
      ContainerInstanceArn |-> cp.hostRef[t],
      Containers           |->
          [k \in 1..Len(cp.taskDef) |->
              [ Name      |-> cp.taskDef[k],
                RuntimeId |-> IF t \in cp.pending THEN Nil
                                                  ELSE RuntimeIdOf(t, k) ]] ]

\* types.ContainerInstance as DescribeContainerInstances returns it
ContainerInstanceRecord(h) ==
    [ ContainerInstanceArn |-> h,
      Ec2InstanceId        |-> IF h \in cp.noEc2Id THEN Nil
                                                   ELSE Ec2InstanceIdOf(h) ]

Modes == {"err", "empty", "ok"}

\* svc.ListTasks: an error, or the running tasks of the service
ListTasks(mode, arns) ==
    IF mode = "err" THEN [err |-> TRUE, TaskArns |-> << >>]
    ELSE IF mode = "empty" THEN [err |-> FALSE, TaskArns |-> << >>]
    ELSE [err |-> FALSE, TaskArns |-> arns]

\* svc.DescribeTasks for the one task asked for
DescribeTasks(mode, t) ==
    IF mode = "err" THEN [err |-> TRUE, Tasks |-> << >>]
    ELSE IF mode = "empty" THEN [err |-> FALSE, Tasks |-> << >>]
    ELSE [err |-> FALSE, Tasks |-> <<TaskRecord(t)>>]

\* the request filter dropped: every container instance of the cluster
DescribeContainerInstances_Unfiltered(h) ==
    <<ContainerInstanceRecord("H1"), ContainerInstanceRecord("H2")>>

\* the container instances the request names
DescribeContainerInstances_Requested(h) == <<ContainerInstanceRecord(h)>>

\* svc.DescribeContainerInstances for the one reference asked for
DescribeContainerInstances(mode, h) ==
    IF mode = "err" THEN [err |-> TRUE, ContainerInstances |-> << >>]
    ELSE IF mode = "empty" THEN [err |-> FALSE, ContainerInstances |-> << >>]
    ELSE [err |-> FALSE,
          ContainerInstances |-> DescribeContainerInstances_Requested(h)]

Intn_Unbounded(n, r) == r

\* rand.Intn(n) with r the value drawn from the generator
Intn(n, r) == r % n

RandDraws == 0..(Cardinality(TaskArns) - 1)

----------------------------------------------------------------------------
(* The resolvers, as functions of the control plane's answers *)

NoCalls == [LoadDefaultConfig |-> 0, GetCallerIdentity |-> 0,
            ListTasks |-> 0, DescribeTasks |-> 0,
            DescribeContainerInstances |-> 0, StartSession |-> 0]

\* only err != nil is checked: rand.Intn(0) panics on an empty list
getECSTask_NoEmptyCheck(listMode, arns, r, descMode) ==
    LET result == ListTasks(listMode, arns)
        base   == [taskArn |-> "", containerInstanceArn |-> "", err |-> "",
                   panic |-> FALSE, TaskArns |-> result.TaskArns,
                   selected |-> "",
                   calls |-> [NoCalls EXCEPT !.ListTasks = 1]]
    IN  IF result.err
        THEN [base EXCEPT !.err = "NoRunningTasks"]
        ELSE IF Len(result.TaskArns) = 0
        THEN [base EXCEPT !.panic = TRUE]
        ELSE LET arn == result.TaskArns[Intn(Len(result.TaskArns), r) + 1]
                 describeResult == DescribeTasks(descMode, arn)
                 made == [base EXCEPT !.calls.DescribeTasks = 1,
                                      !.selected = arn]
             IN  IF describeResult.err \/ Len(describeResult.Tasks) = 0
                 THEN [made EXCEPT !.err = "DescribeFailed"]
                 ELSE IF describeResult.Tasks[1].ContainerInstanceArn = Nil
                 THEN [made EXCEPT !.panic = TRUE]
                 ELSE [made EXCEPT !.taskArn = arn,
                          !.containerInstanceArn =
                              describeResult.Tasks[1].ContainerInstanceArn]

\* getECSTask: (taskArn, containerInstanceArn, err), or a nil dereference
getECSTask(listMode, arns, r, descMode) ==
    LET result == ListTasks(listMode, arns)
        base   == [taskArn |-> "", containerInstanceArn |-> "", err |-> "",
                   panic |-> FALSE, TaskArns |-> result.TaskArns,
                   selected |-> "",
                   calls |-> [NoCalls EXCEPT !.ListTasks = 1]]
        idx    == Intn(Len(result.TaskArns), r)
    IN  IF result.err \/ Len(result.TaskArns) = 0
        THEN [base EXCEPT !.err = "NoRunningTasks"]
        ELSE IF idx >= Len(result.TaskArns)      \* index out of range
        THEN [base EXCEPT !.panic = TRUE]
        ELSE LET arn == result.TaskArns[idx + 1]
                 describeResult == DescribeTasks(descMode, arn)
                 made == [base EXCEPT !.calls.DescribeTasks = 1,
                                      !.selected = arn]
             IN  IF describeResult.err \/ Len(describeResult.Tasks) = 0
                 THEN [made EXCEPT !.err = "DescribeFailed"]
                 ELSE IF describeResult.Tasks[1].ContainerInstanceArn = Nil
                 THEN [made EXCEPT !.panic = TRUE]
                 ELSE [made EXCEPT !.taskArn = arn,
                          !.containerInstanceArn =
                              describeResult.Tasks[1].ContainerInstanceArn]

\* getEC2InstanceID: (instanceID, err), or a nil dereference
getEC2InstanceID(mode, arn, r) ==
    LET result == DescribeContainerInstances(mode, arn)
        base   == [instanceID |-> "", err |-> "", panic |-> FALSE,
                   calls |-> [NoCalls EXCEPT !.DescribeContainerInstances = 1]]
        idx    == Intn(Len(result.ContainerInstances), r)
    IN  IF result.err \/ Len(result.ContainerInstances) = 0
        THEN [base EXCEPT !.err = "NoHostInstances"]
        ELSE IF idx >= Len(result.ContainerInstances)   \* index out of range
        THEN [base EXCEPT !.panic = TRUE]
        ELSE LET selectedInstance == result.ContainerInstances[idx + 1]
             IN  IF selectedInstance.Ec2InstanceId = Nil
                 THEN [base EXCEPT !.panic = TRUE]
                 ELSE [base EXCEPT !.instanceID = selectedInstance.Ec2InstanceId]

\* the scan of getContainerID over the containers of the task, from index k
RECURSIVE ScanContainers(_, _, _)
ScanContainers(containers, name, k) ==
    IF k > Len(containers)
    THEN [containerID |-> "", err |-> "ContainerNotFound", panic |-> FALSE]
    ELSE IF containers[k].Name = name
    THEN IF containers[k].RuntimeId = Nil
         THEN [containerID |-> "", err |-> "", panic |-> TRUE]
         ELSE [containerID |-> containers[k].RuntimeId, err |-> "",
               panic |-> FALSE]
    ELSE ScanContainers(containers, name, k + 1)

\* getContainerID: (containerID, err), or a nil dereference
getContainerID(mode, arn, name) ==
    LET describeResult == DescribeTasks(mode, arn)
        made == [NoCalls EXCEPT !.DescribeTasks = 1]
    IN  IF describeResult.err \/ Len(describeResult.Tasks) = 0
        THEN [containerID |-> "", err |-> "DescribeFailed", panic |-> FALSE,
              calls |-> made]
        ELSE ScanContainers(describeResult.Tasks[1].Containers, name, 1)
                 @@ [calls |-> made]

\* the argument vector startSSMSession builds; profile is a *string
\* (<< >> is nil, <<p>> points to p)
SsmCmd(instance, container, profile, reg) ==
    << "aws", "ssm", "start-session",
       "--target", instance,
       "--document-name", "AWS-StartInteractiveCommand",
       "--parameters",
       "{\"command\":[\"sudo docker exec -it " \o container \o " bash\"]}",
       "--region", reg >>
    \o (IF profile # << >> THEN <<"--profile", profile[1]>> ELSE << >>)

----------------------------------------------------------------------------
(* main *)

FlagValues ==
    [ clusterName   : {"", "prod"},
      serviceName   : {"", "web"},
      containerName : {"", "app"},
      profile       : {"", "dev"} ]

NoAttempt == [calls |-> NoCalls, list |-> "none", task |-> "none",
              selected |-> ""]

Unresolved == [taskArn |-> 0, instanceID |-> 0, containerID |-> 0]

Init ==
    /\ flags \in FlagValues
    /\ cp \in Clusters
    /\ pc = "main"
    /\ cfg = [loaded |-> FALSE, profile |-> "", region |-> ""]
    /\ i = 0
    /\ retrySuccess = FALSE
    /\ taskArn = ""
    /\ containerInstanceArn = ""
    /\ instanceID = ""
    /\ containerID = ""
    /\ err = ""
    /\ exitCode = -1
    /\ fatal = ""
    /\ sts = "none"
    /\ taskArns = << >>
    /\ calls = NoCalls
    /\ att = NoAttempt
    /\ sleeps = 0
    /\ outcomes = << >>
    /\ launches = << >>
    /\ resolvedIn = Unresolved

Add(c, d) == [op \in DOMAIN c |-> c[op] + d[op]]

\* the remote calls a step issued, added to the history
Issue(made) ==
    /\ calls' = Add(calls, made)
    /\ att' = [att EXCEPT !.calls = Add(att.calls, made)]

\* log.Fatal / log.Fatalf: os.Exit(1)
Fatal(where) ==
    /\ pc' = "Failed"
    /\ exitCode' = 1
    /\ fatal' = where

\* a nil pointer dereference: the runtime panics, the process exits with 2
Panic ==
    /\ pc' = "Panicked"
    /\ exitCode' = 2
    /\ err' = ""
    /\ outcomes' = Append(outcomes, [step |-> pc, err |-> "panic"])
    /\ UNCHANGED <<fatal, i, retrySuccess, sleeps>>

LastAttempt_OffByOne == i = maxRetries

\* i == maxRetries-1
LastAttempt == i = maxRetries - 1

\* the continue is missing: after the error main falls through to the
\* step that follows
RetryOrFatal_NoContinue(e) ==
    /\ err' = e
    /\ outcomes' = Append(outcomes, [step |-> pc, err |-> e])
    /\ IF LastAttempt
       THEN Fatal(pc)
       ELSE /\ pc' = IF pc = "getECSTask" THEN "getEC2InstanceID"
                     ELSE IF pc = "getEC2InstanceID" THEN "getContainerID"
                     ELSE "startSSMSession"
            /\ UNCHANGED <<exitCode, fatal>>
    /\ UNCHANGED <<i, retrySuccess, sleeps>>

\* the error branch after each resolver call
RetryOrFatal(e) ==
    /\ err' = e
    /\ outcomes' = Append(outcomes, [step |-> pc, err |-> e])
    /\ IF LastAttempt
       THEN Fatal(pc)
       ELSE pc' = "Sleep" /\ UNCHANGED <<exitCode, fatal>>
    /\ UNCHANGED <<i, retrySuccess, sleeps>>

\* no error: main goes on to the next step of the iteration
Proceed(next) ==
    /\ pc' = next
    /\ err' = ""
    /\ UNCHANGED <<exitCode, fatal, outcomes, i, retrySuccess, sleeps>>

UsageError_ClusterRequired ==
    flags.clusterName = "" \/ flags.serviceName = "" \/ flags.containerName = ""

\* *serviceName == "" || *containerName == ""
UsageError == flags.serviceName = "" \/ flags.containerName = ""

\* flag.Parse and the check of the required flags
ParseFlags ==
    /\ pc = "main"
    /\ IF UsageError
       THEN Fatal("Usage")
       ELSE pc' = "LoadDefaultConfig" /\ UNCHANGED <<exitCode, fatal>>
    /\ UNCHANGED <<flags, cp, cfg, i, retrySuccess, locals, err, sts,
                   taskArns, calls, att, sleeps, outcomes, launches,
                   resolvedIn>>

\* config.LoadDefaultConfig, with the shared profile when one is given
LoadDefaultConfig ==
    /\ pc = "LoadDefaultConfig"
    /\ \E ok \in BOOLEAN :
          IF ok
          THEN /\ cfg' = [loaded |-> TRUE, profile |-> flags.profile,
                          region |-> region]
               /\ pc' = "validateAWSCredentials"
               /\ UNCHANGED <<exitCode, fatal, err>>
          ELSE /\ err' = "LoadConfigError"
               /\ Fatal("LoadDefaultConfig")
               /\ UNCHANGED cfg
    /\ calls' = [calls EXCEPT !.LoadDefaultConfig = @ + 1]
    /\ UNCHANGED <<flags, cp, i, retrySuccess, locals, sts, taskArns, att,
                   sleeps, outcomes, launches, resolvedIn>>

\* validateAWSCredentials: "" or the authentication error
validateAWSCredentials(ok) == IF ok THEN "" ELSE "AuthError"

AuthFailed_Ignored(e) == FALSE

\* if err := validateAWSCredentials(cfg); err != nil
AuthFailed(e) == e # ""

\* the credential check of main, then the entry of the retry loop (i := 0)
ValidateAWSCredentials ==
    /\ pc = "validateAWSCredentials"
    /\ \E ok \in BOOLEAN :
          LET e == validateAWSCredentials(ok)
          IN  /\ err' = e
              /\ sts' = IF ok THEN "ok" ELSE "err"
              /\ IF AuthFailed(e)
                 THEN Fatal("validateAWSCredentials")
                 ELSE pc' = "getECSTask" /\ UNCHANGED <<exitCode, fatal>>
    /\ calls' = [calls EXCEPT !.GetCallerIdentity = @ + 1]
    /\ i' = 0
    /\ retrySuccess' = FALSE
    /\ UNCHANGED <<flags, cp, cfg, locals, taskArns, att, sleeps, outcomes,
                   launches, resolvedIn>>

\* taskArn, containerInstanceArn, err := getECSTask(...) and its error branch
GetECSTask ==
    /\ pc = "getECSTask"
    /\ \E listMode \in Modes, arns \in TaskArnLists \ {<< >>},
          r \in RandDraws, descMode \in Modes :
          LET res == getECSTask(listMode, arns, r, descMode)
          IN  /\ taskArns' = res.TaskArns
              /\ calls' = Add(calls, res.calls)
              /\ att' = [att EXCEPT !.calls = Add(att.calls, res.calls),
                                    !.list = listMode,
                                    !.selected = res.selected]
              /\ taskArn' = res.taskArn
              /\ containerInstanceArn' = res.containerInstanceArn
              /\ IF res.panic THEN Panic /\ UNCHANGED resolvedIn
                 ELSE IF res.err # ""
                 THEN RetryOrFatal(res.err) /\ UNCHANGED resolvedIn
                 ELSE /\ Proceed("getEC2InstanceID")
                      /\ resolvedIn' = [resolvedIn EXCEPT !.taskArn = i + 1]
    /\ UNCHANGED <<flags, cp, cfg, instanceID, containerID, sts, launches>>

\* instanceID, err := getEC2InstanceID(...) and its error branch
GetEC2InstanceID ==
    /\ pc = "getEC2InstanceID"
    /\ \E mode \in Modes, r \in RandDraws :
          LET res == getEC2InstanceID(mode, containerInstanceArn, r)
          IN  /\ Issue(res.calls)
              /\ instanceID' = res.instanceID
              /\ IF res.panic THEN Panic /\ UNCHANGED resolvedIn
                 ELSE IF res.err # ""
                 THEN RetryOrFatal(res.err)
                      /\ UNCHANGED resolvedIn
                 ELSE /\ Proceed("getContainerID")
                      /\ resolvedIn' = [resolvedIn EXCEPT !.instanceID = i + 1]
    /\ UNCHANGED <<flags, cp, cfg, taskArn, containerInstanceArn, containerID,
                   sts, taskArns, launches>>

\* containerID, err := getContainerID(...) and its error branch
GetContainerID ==
    /\ pc = "getContainerID"
    /\ \E mode \in Modes :
          LET res == getContainerID(mode, taskArn, flags.containerName)
          IN  /\ calls' = Add(calls, res.calls)
              /\ att' = [att EXCEPT !.calls = Add(att.calls, res.calls),
                                    !.task = mode]
              /\ containerID' = res.containerID
              /\ IF res.panic THEN Panic /\ UNCHANGED resolvedIn
                 ELSE IF res.err # ""
                 THEN RetryOrFatal(res.err)
                      /\ UNCHANGED resolvedIn
                 ELSE /\ Proceed("startSSMSession")
                      /\ resolvedIn' = [resolvedIn EXCEPT !.containerID = i + 1]
    /\ UNCHANGED <<flags, cp, cfg, taskArn, containerInstanceArn, instanceID,
                   sts, taskArns, launches>>

AfterLoop_NoCheck(success) ==
    /\ pc' = IF success THEN "Succeeded" ELSE "Failed"
    /\ exitCode' = 0
    /\ UNCHANGED fatal

\* after the loop: if !retrySuccess, log.Fatalf; else main returns
AfterLoop(success) ==
    IF ~success
    THEN Fatal("MaxAttempts")
    ELSE pc' = "Succeeded" /\ exitCode' = 0 /\ UNCHANGED fatal

MoreAttempts_OffByOne == i < maxRetries

\* i < maxRetries-1
MoreAttempts == i < maxRetries - 1

OnLaunchSuccess_NoBreak ==
    /\ retrySuccess' = TRUE
    /\ IF MoreAttempts
       THEN pc' = "Sleep" /\ UNCHANGED <<exitCode, fatal>>
       ELSE AfterLoop(TRUE)

\* err == nil: retrySuccess = true; break
OnLaunchSuccess ==
    /\ retrySuccess' = TRUE
    /\ AfterLoop(TRUE)

\* err = startSSMSession(...): the aws CLI runs on the terminal until it
\* exits; on success break, else sleep unless this was the last iteration
StartSSMSession ==
    /\ pc = "startSSMSession"
    /\ \E ok \in BOOLEAN :
          /\ launches' = Append(launches,
                 [ attempt    |-> i + 1,
                   cmd        |-> SsmCmd(instanceID, containerID,
                                         <<flags.profile>>, region),
                   target     |-> instanceID,
                   container  |-> containerID,
                   task       |-> taskArn,
                   from       |-> taskArns,
                   resolvedIn |-> resolvedIn,
                   resolution |-> att.calls,
                   ok         |-> ok ])
          /\ IF ok
             THEN /\ err' = ""
                  /\ outcomes' = Append(outcomes, [step |-> pc, err |-> ""])
                  /\ OnLaunchSuccess
             ELSE /\ err' = "SessionLaunchFailed"
                  /\ outcomes' = Append(outcomes,
                         [step |-> pc, err |-> "SessionLaunchFailed"])
                  /\ UNCHANGED retrySuccess
                  /\ IF MoreAttempts
                     THEN pc' = "Sleep" /\ UNCHANGED <<exitCode, fatal>>
                     ELSE AfterLoop(retrySuccess)
    /\ Issue([NoCalls EXCEPT !.StartSession = 1])
    /\ UNCHANGED <<flags, cp, cfg, i, locals, sts, taskArns, sleeps,
                   resolvedIn>>

Backoff_Skipped == sleeps' = sleeps

Backoff_Twice == sleeps' = sleeps + 2

\* time.Sleep(backoffDelay)
Backoff == sleeps' = sleeps + 1

NextAttempt_Reuse ==
    IF containerID # ""
    THEN /\ pc' = "startSSMSession"
         /\ UNCHANGED <<locals, resolvedIn>>
    ELSE /\ pc' = "getECSTask"
         /\ taskArn' = ""
         /\ containerInstanceArn' = ""
         /\ instanceID' = ""
         /\ containerID' = ""
         /\ resolvedIn' = Unresolved

\* a new iteration of the loop body: its locals are declared anew
NextAttempt ==
    /\ pc' = "getECSTask"
    /\ taskArn' = ""
    /\ containerInstanceArn' = ""
    /\ instanceID' = ""
    /\ containerID' = ""
    /\ resolvedIn' = Unresolved

\* the backoff sleep, then i++ and the loop condition i < maxRetries
Sleep ==
    /\ pc = "Sleep"
    /\ Backoff
    /\ i' = i + 1
    /\ IF i + 1 < maxRetries
       THEN NextAttempt /\ UNCHANGED <<exitCode, fatal>>
       ELSE AfterLoop(retrySuccess) /\ UNCHANGED <<locals, resolvedIn>>
    /\ att' = NoAttempt
    /\ taskArns' = << >>
    /\ UNCHANGED <<flags, cp, cfg, retrySuccess, err, sts, calls, outcomes,
                   launches>>

Next ==
    \/ ParseFlags
    \/ LoadDefaultConfig
    \/ ValidateAWSCredentials
    \/ GetECSTask
    \/ GetEC2InstanceID
    \/ GetContainerID
    \/ StartSSMSession
    \/ Sleep

Spec == Init /\ [][Next]_vars

\* main is one sequential process: every remote call, sleep and launched
\* process returns, so a step that can be taken is taken
FairSpec == Spec /\ WF_vars(Next)

----------------------------------------------------------------------------
(* Properties *)

ResolverSteps == {"getECSTask", "getEC2InstanceID", "getContainerID"}

ResolverErrs == {"NoRunningTasks", "DescribeFailed", "NoHostInstances",
                 "ContainerNotFound"}

Terminated == pc \in {"Succeeded", "Failed", "Panicked"}

\* attempt k ended with an error returned by one of the three resolvers
ResolverFailure(k) ==
    outcomes[k].step \in ResolverSteps /\ outcomes[k].err \in ResolverErrs

\* attempt k ended with the launcher returning an error
LaunchFailure(k) ==
    outcomes[k].step = "startSSMSession" /\ outcomes[k].err = "SessionLaunchFailed"

LookupCalls ==
    calls.ListTasks + calls.DescribeTasks + calls.DescribeContainerInstances

FullResolution ==
    [NoCalls EXCEPT !.ListTasks = 1, !.DescribeTasks = 2,
                    !.DescribeContainerInstances = 1]

\* C1: while every attempt so far ended in a resolver error, the run goes on
\* until maxRetries attempts are made; after the maxRetries-th such failure
\* exactly maxRetries attempts and maxRetries - 1 sleeps have happened and
\* the process has ended in Failed with exit status 1, no session launched.
C1_ResolverAlwaysFails ==
    (outcomes # << >> /\ \A k \in 1..Len(outcomes) : ResolverFailure(k))
    => /\ Len(outcomes) <= maxRetries
       /\ calls.StartSession = 0
       /\ IF Len(outcomes) = maxRetries
          THEN /\ pc = "Failed"
               /\ exitCode = 1
               /\ fatal \in ResolverSteps
               /\ calls.ListTasks = maxRetries
               /\ sleeps = maxRetries - 1
          ELSE /\ ~Terminated
               /\ sleeps \in {Len(outcomes) - 1, Len(outcomes)}
               /\ calls.ListTasks \in {Len(outcomes), Len(outcomes) + 1}

\* the container name matches nothing: ContainerNotFound three times, fatal
C1_Witness ==
    /\ pc = "Failed"
    /\ exitCode = 1
    /\ Len(outcomes) = maxRetries
    /\ \A k \in 1..maxRetries :
          outcomes[k] = [step |-> "getContainerID", err |-> "ContainerNotFound"]

\* C2: when the first two attempts ended in resolver errors, the third
\* attempt reaches the launcher after exactly two sleeps, and if that launch
\* succeeds the run is Succeeded (exit 0) with exactly two sleeps.
C2_FailsTwiceThenSucceeds ==
    (Len(outcomes) >= 2 /\ ResolverFailure(1) /\ ResolverFailure(2))
    => /\ (pc = "startSSMSession" => sleeps = 2 /\ i = 2)
       /\ (Len(outcomes) = 3 /\ outcomes[3].err = ""
             => /\ pc = "Succeeded"
                /\ retrySuccess
                /\ exitCode = 0
                /\ sleeps = 2
                /\ Len(launches) = 1
                /\ launches[1].attempt = 3)

\* two different resolver steps failed, then the third attempt succeeded
C2_Witness ==
    /\ pc = "Succeeded"
    /\ Len(outcomes) = 3
    /\ outcomes[1] = [step |-> "getContainerID", err |-> "DescribeFailed"]
    /\ outcomes[2] = [step |-> "getEC2InstanceID", err |-> "NoHostInstances"]
    /\ outcomes[3] = [step |-> "startSSMSession", err |-> ""]
    /\ sleeps = 2

\* every local the launcher reads was assigned in attempt n
ResolvedInAttempt(stamps, n) ==
    stamps.taskArn = n /\ stamps.instanceID = n /\ stamps.containerID = n

\* C3: a session launch that follows a failed launch belongs to a later
\* attempt, that attempt has issued its own ListTasks, two DescribeTasks and
\* DescribeContainerInstances before the launch, and the identifiers given
\* to the launcher were all assigned by the resolvers of that attempt.
C3_ReResolution ==
    /\ \A n \in 2..Len(launches) :
          /\ ~launches[n - 1].ok
          /\ launches[n].attempt > launches[n - 1].attempt
          /\ launches[n].resolution = FullResolution
          /\ ResolvedInAttempt(launches[n].resolvedIn, launches[n].attempt)
    /\ (launches # << >> /\ pc = "startSSMSession")
       => /\ i + 1 > launches[Len(launches)].attempt
          /\ att.calls = FullResolution
          /\ ResolvedInAttempt(resolvedIn, i + 1)

\* a launch failed and the next attempt launched into another task
C3_Witness ==
    /\ Len(launches) >= 2
    /\ launches[2].attempt = launches[1].attempt + 1
    /\ launches[2].task # launches[1].task
    /\ launches[2].target # launches[1].target
    /\ launches[2].container # launches[1].container

\* C4: while every attempt so far ended in a failed session launch, each
\* attempt launched once and the run goes on; after the maxRetries-th failed
\* launch the launcher has run maxRetries times, maxRetries - 1 sleeps have
\* happened and the process has ended in Failed with exit status 1.
C4_LaunchAlwaysFails ==
    (outcomes # << >> /\ \A k \in 1..Len(outcomes) : LaunchFailure(k))
    => /\ Len(outcomes) <= maxRetries
       /\ IF Len(outcomes) = maxRetries
          THEN /\ pc = "Failed"
               /\ exitCode = 1
               /\ fatal = "MaxAttempts"
               /\ calls.StartSession = maxRetries
               /\ Len(launches) = maxRetries
               /\ sleeps = maxRetries - 1
          ELSE /\ ~Terminated
               /\ sleeps \in {Len(outcomes) - 1, Len(outcomes)}
               /\ calls.StartSession \in {Len(outcomes), Len(outcomes) + 1}

\* three launches, all failed
C4_Witness ==
    /\ pc = "Failed"
    /\ Len(outcomes) = maxRetries
    /\ \A k \in 1..maxRetries : LaunchFailure(k)
    /\ sleeps = maxRetries - 1

\* C5: in an attempt whose ListTasks answered with an empty list, getECSTask
\* returned the NoRunningTasks error and the attempt ended there: it issued
\* no DescribeTasks, no DescribeContainerInstances and no session launch.
C5_EmptyTaskList ==
    att.list = "empty"
    => /\ err = "NoRunningTasks"
       /\ outcomes[Len(outcomes)] =
              [step |-> "getECSTask", err |-> "NoRunningTasks"]
       /\ pc \in {"Sleep", "Failed"}
       /\ att.calls = [NoCalls EXCEPT !.ListTasks = 1]
       /\ \A n \in 1..Len(launches) : launches[n].attempt # i + 1

\* an empty list in the second attempt, after an attempt that launched
C5_Witness ==
    /\ att.list = "empty"
    /\ i = 1
    /\ Len(launches) = 1
    /\ pc = "Sleep"

\* the runtime ids of the containers of task t that carry the given name
RuntimeIdsOf(t, name) ==
    {TaskRecord(t).Containers[k].RuntimeId :
        k \in {j \in 1..Len(TaskRecord(t).Containers) :
                  TaskRecord(t).Containers[j].Name = name}}

\* C6: every session launch was given the EC2 instance id of the container
\* instance that the task selected in that same attempt is placed on, and a
\* runtime id of one of that task's own containers; the task is one of the
\* tasks listed in that attempt and all three were resolved in that attempt.
C6_LaunchMatchesSelectedTask ==
    \A n \in 1..Len(launches) :
       LET l == launches[n]
       IN  /\ l.task \in {l.from[k] : k \in 1..Len(l.from)}
           /\ l.target =
                  ContainerInstanceRecord(
                      TaskRecord(l.task).ContainerInstanceArn).Ec2InstanceId
           /\ l.container \in RuntimeIdsOf(l.task, flags.containerName)
           /\ l.target # Nil /\ l.container # Nil
           /\ ResolvedInAttempt(l.resolvedIn, l.attempt)
           /\ l.cmd[5] = l.target

\* two launches into different tasks placed on different hosts
C6_Witness ==
    /\ Len(launches) = 2
    /\ launches[1].task = "T2" /\ launches[1].target = Ec2InstanceIdOf("H2")
    /\ launches[2].task = "T1" /\ launches[2].target = Ec2InstanceIdOf("H1")
    /\ launches[1].container = RuntimeIdOf("T2", 2)
    /\ launches[2].container = RuntimeIdOf("T1", 2)

\* the first container of the list that carries the name, 0 if none does
FirstNamed(containers, name) ==
    LET M == {k \in 1..Len(containers) : containers[k].Name = name}
    IN  IF M = {} THEN 0 ELSE CHOOSE k \in M : \A j \in M : k <= j

\* C7: whenever getContainerID was given the task's container list, it has
\* returned the runtime identifier of the first container of that list with
\* the requested name, or the ContainerNotFound error if there is none.
C7_FirstMatchOrNotFound ==
    att.task = "ok"
    => LET containers == TaskRecord(taskArn).Containers
           first == FirstNamed(containers, flags.containerName)
       IN  IF first = 0
           THEN err = "ContainerNotFound" /\ containerID = ""
           ELSE /\ pc # "Panicked"
                /\ containers[first].RuntimeId # Nil
                /\ containerID = containers[first].RuntimeId

\* C8: a run that has ended has exit status 0 exactly when it ended in
\* Succeeded, which is exactly when its last session launch returned
\* success; every fatal ending has a non-zero status, and no status is set
\* before the run ends.
C8_ExitCode ==
    /\ Terminated <=> exitCode # -1
    /\ exitCode = 0 <=> pc = "Succeeded"
    /\ pc = "Succeeded" <=>
          (launches # << >> /\ launches[Len(launches)].ok)
    /\ pc = "Succeeded" <=> retrySuccess
    /\ pc = "Failed" <=> fatal # ""
    /\ pc = "Failed" => exitCode = 1

\* retries exhausted by session-launch failures
C8_Witness ==
    /\ pc = "Failed"
    /\ fatal = "MaxAttempts"
    /\ exitCode = 1
    /\ Len(launches) = maxRetries

C10_CredentialCheckFirst ==
    /\ (\/ LookupCalls > 0
        \/ calls.StartSession > 0
        \/ sleeps > 0
        \/ outcomes # << >>
        \/ launches # << >>
        \/ pc \in ResolverSteps \cup {"startSSMSession", "Sleep", "Succeeded",
                                     "Panicked"})
       => sts = "ok" /\ calls.GetCallerIdentity = 1
    /\ sts = "err"
       => /\ pc = "Failed"
          /\ fatal = "validateAWSCredentials"
          /\ exitCode = 1
          /\ LookupCalls = 0

\* the credential check failed
C10_Witness ==
    /\ sts = "err"
    /\ pc = "Failed"
    /\ calls.GetCallerIdentity = 1

\* the values that follow a "--profile" argument in an argument vector
ProfileArgs(cmd) ==
    {cmd[k + 1] : k \in {j \in 1..(Len(cmd) - 1) : cmd[j] = "--profile"}}

\* C11: the command of every session launch carries the caller's profile,
\* and only it, when --profile was given a non-empty value, and carries no
\* --profile argument at all when it was not.
C11_ProfileForwardedIffSet ==
    \A n \in 1..Len(launches) :
       /\ flags.profile # "" => ProfileArgs(launches[n].cmd) = {flags.profile}
       /\ flags.profile = ""
          => \A k \in 1..Len(launches[n].cmd) : launches[n].cmd[k] # "--profile"

Elements(list) == {list[k] : k \in 1..Len(list)}

\* C12: when ListTasks returned a non-empty list, getECSTask selected one
\* element of that very list (the only one if the list has one element),
\* and the task it returns on success is the selected one.
C12_SelectedFromList ==
    att.list = "ok"
    => /\ att.selected \in Elements(taskArns)
       /\ Len(taskArns) = 1 => att.selected = taskArns[1]
       /\ taskArn # "" => taskArn = att.selected
       /\ resolvedIn.taskArn = i + 1 => taskArn = att.selected

\* a one-element list, whose element is the task returned
C12_Witness ==
    /\ att.list = "ok"
    /\ taskArns = <<"T2">>
    /\ taskArn = "T2"
    /\ pc = "getEC2InstanceID"

\* C13: under FairSpec every run eventually is in Succeeded or in Failed,
\* and at no time have more than maxRetries attempts been started.
C13_EventuallySucceededOrFailed ==
    /\ <>(pc \in {"Succeeded", "Failed"})
    /\ [](calls.ListTasks <= maxRetries /\ Len(outcomes) <= maxRetries)

\* the remote calls of one attempt: l ListTasks, d DescribeTasks,
\* c DescribeContainerInstances, s session launches
AttemptCalls(l, d, c, s) ==
    [NoCalls EXCEPT !.ListTasks = l, !.DescribeTasks = d,
                    !.DescribeContainerInstances = c, !.StartSession = s]

\* C14: within an attempt main is at a step only after the steps before it
\* have been called once and have succeeded in this attempt, in the order
\* getECSTask, getEC2InstanceID, getContainerID, startSSMSession; the
\* launcher is called only after all three resolutions of the attempt; and
\* the attempt that ended at a failing step has called none of the later
\* steps.
C14_StepsInOrder ==
    /\ pc = "getECSTask"
       => att.calls = NoCalls /\ resolvedIn = Unresolved
    /\ pc = "getEC2InstanceID"
       => /\ att.calls = AttemptCalls(1, 1, 0, 0)
          /\ resolvedIn = [taskArn |-> i + 1, instanceID |-> 0,
                           containerID |-> 0]
    /\ pc = "getContainerID"
       => /\ att.calls = AttemptCalls(1, 1, 1, 0)
          /\ resolvedIn = [taskArn |-> i + 1, instanceID |-> i + 1,
                           containerID |-> 0]
    /\ pc = "startSSMSession"
       => /\ att.calls = AttemptCalls(1, 2, 1, 0)
          /\ ResolvedInAttempt(resolvedIn, i + 1)
    /\ (pc \in {"Sleep", "Failed", "Panicked"} /\ outcomes # << >>)
       => LET last == outcomes[Len(outcomes)]
          IN  /\ last.step = "getECSTask"
                 => /\ att.calls \in {AttemptCalls(1, 0, 0, 0),
                                      AttemptCalls(1, 1, 0, 0)}
                    /\ resolvedIn = Unresolved
              /\ last.step = "getEC2InstanceID"
                 => /\ att.calls = AttemptCalls(1, 1, 1, 0)
                    /\ resolvedIn.instanceID = 0 /\ resolvedIn.containerID = 0
              /\ last.step = "getContainerID"
                 => /\ att.calls = AttemptCalls(1, 2, 1, 0)
                    /\ resolvedIn.containerID = 0
              /\ last.step = "startSSMSession"
                 => att.calls = AttemptCalls(1, 2, 1, 1)
    /\ \A n \in 1..Len(launches) :
          launches[n].resolution = AttemptCalls(1, 2, 1, 0)

\* the host lookup of the second attempt failed: the attempt ends there
C14_Witness ==
    /\ pc = "Sleep"
    /\ i = 1
    /\ Len(outcomes) = 2
    /\ outcomes[2] = [step |-> "getEC2InstanceID", err |-> "NoHostInstances"]
    /\ att.calls = AttemptCalls(1, 1, 1, 0)

\* C15: a session launch that returned success is the last launch of the
\* run and ended it: the run is in Succeeded with status 0 and can take no
\* further step, and since that launch no attempt was started, no remote
\* call was issued and no sleep was made.
C15_SuccessIsFinal ==
    \A n \in 1..Len(launches) :
       launches[n].ok
       => /\ n = Len(launches)
          /\ pc = "Succeeded"
          /\ exitCode = 0
          /\ ~ENABLED Next
          /\ Len(outcomes) = launches[n].attempt
          /\ i + 1 = launches[n].attempt
          /\ sleeps = launches[n].attempt - 1
          /\ calls.ListTasks = launches[n].attempt
          /\ calls.StartSession = n
          /\ att.calls = AttemptCalls(1, 2, 1, 1)

\* the second launch of the run succeeded
C15_Witness ==
    /\ Len(launches) = 2
    /\ ~launches[1].ok
    /\ launches[2].ok
    /\ pc = "Succeeded"

\* the sleeps made are those between the attempts made
SleepsBetweenAttempts ==
    /\ pc \in ResolverSteps \cup {"startSSMSession"}
       => sleeps = i /\ Len(outcomes) = i
    /\ pc = "Sleep"
       => /\ sleeps = i
          /\ Len(outcomes) = i + 1
          /\ i + 1 < maxRetries
          /\ outcomes[i + 1].err \in ResolverErrs \cup {"SessionLaunchFailed"}
    /\ (Terminated /\ outcomes # << >>)
       => /\ sleeps = i
          /\ sleeps = Len(outcomes) - 1
          /\ sleeps <= maxRetries - 1
    /\ outcomes = << >> => sleeps = 0

\* a step that sleeps is taken from a failed attempt that is not the last,
\* sleeps once and starts the next attempt
SleepStep ==
    sleeps' # sleeps
    => /\ pc = "Sleep"
       /\ outcomes[Len(outcomes)].err # ""
       /\ Len(outcomes) < maxRetries
       /\ sleeps' = sleeps + 1
       /\ i' = i + 1
       /\ pc' = "getECSTask"
       /\ att' = NoAttempt
       /\ outcomes' = outcomes

\* C16: attempt k starts after exactly k - 1 sleeps; a sleep is made only
\* after a failed attempt that is not the last (whichever step failed) and
\* the next step starts the following attempt; a run that has ended has
\* slept once less than it made attempts, so never after its final attempt
\* or after a successful launch.
C16_SleepsOnlyBetweenAttempts ==
    []SleepsBetweenAttempts /\ [][SleepStep]_vars

\* the third attempt starts after a resolver failure and a launch failure
C16_Witness ==
    /\ pc = "getECSTask"
    /\ i = 2
    /\ sleeps = 2
    /\ outcomes[1].step = "getEC2InstanceID"
    /\ outcomes[2].step = "startSSMSession"

\* C17: whatever the control plane answers, every attempt that has ended
\* ended with a successful launch or with one of the five retryable errors,
\* and the process is running or has ended in Succeeded (status 0) or in
\* Failed (status 1): it never crashes.
C17_NoCrashOutsideRetryPolicy ==
    /\ \A k \in 1..Len(outcomes) :
          outcomes[k].err \in ResolverErrs \cup {"", "SessionLaunchFailed"}
    /\ pc # "Panicked"
    /\ exitCode \in {-1, 0, 1}

====
